---- MODULE Spec2Model ----
(***************************************************************************)
(* Staged partial-exit trade management of                                 *)
(* src/ibkr/algo_trading_project/ibkr_api/order_entry_partials_improved.py *)
(* (enter_trade, manage_trade, __main__) against a model of the broker     *)
(* (position, portfolio entry, market orders, stop orders).                *)
(*                                                                         *)
(* Prices are integers in ticks.  Risk amounts are even so that the        *)
(* 1.5 R target is exact.  The polled price is any member of Prices: this  *)
(* covers the live ticker and the TEST_MODE overrides of lines 395-434,    *)
(* which only replace the polled price by "just beyond the next target"    *)
(* or "beyond the stop".                                                   *)
(*                                                                         *)
(* The broker's state is what ib.portfolio() shows.  It changes only while *)
(* the script yields to the event loop (ib.sleep, ib.reqTickers), that is, *)
(* between two steps of the script below.                                  *)
(***************************************************************************)
EXTENDS Integers, Sequences, FiniteSets

\* ---------------------------------------------------------------- bounds
\* largest share_size tried
MaxShares == 3
\* how many times somebody else changes the position in one run
MaxManual == 1
\* number of market orders of a run up to which a broker call may still raise
MaxOrders == 2
\* the stop is tightened for lack of progress only while fewer stop orders
\* than this have been placed in the run
MaxStops == 3

\* trade.orderStatus.avgFillPrice of the entry order, in ticks
EntryPrice == 12
\* risk_amount values tried: 0 is what round(..., 2) yields for a tiny ATR or price
RiskAmounts == {0, 2}
\* polled prices, as moves from the entry price in the direction of profit:
\* with risk 2, -2 is the initial stop and 3, 6, 10 are the three targets
PriceMoves == {-2, 0, 3, 6, 10}
Directions == {"long", "short"}

VARIABLES
    \* inputs of the run
    direction, share_size, risk_amount, entry_price,
    \* position of the script
    pc,
    \* locals of manage_trade
    remaining_shares, first_partial, second_partial, partial_size,
    current_stop_price, trade_stage, current_price, portfolio,
    stop_loss_order, check_due, break_even_stop,
    \* the broker
    position, position_exists, mkt_orders, stops, manual_count,
    \* observation of the run (log lines)
    outcomes, chk, max_reported,
    \* locals of manage_partials (order_entry_partials_risk.py)
    filled1, filled2, stop1, stop2,
    \* TradeManager (asynchronus_trading.py): the symbol is a key of
    \* self.active_trades; on_execution is registered with execDetailsEvent;
    \* the ticker holds a price that passes the test of line 105
    active_trades, on_execution, ticker_valid,
    \* claude_improved_strategy.py: the allocation of the regime and the size
    \* of the second partial
    target_allocation, partial2_size

vars == << direction, share_size, risk_amount, entry_price, pc,
           remaining_shares, first_partial, second_partial, partial_size,
           current_stop_price, trade_stage, current_price, portfolio,
           stop_loss_order, check_due, break_even_stop,
           position, position_exists, mkt_orders, stops, manual_count,
           outcomes, chk, max_reported,
           filled1, filled2, stop1, stop2,
           active_trades, on_execution, ticker_valid,
           target_allocation, partial2_size >>

inputs == << direction, share_size, risk_amount, entry_price >>
locals == << remaining_shares, first_partial, second_partial, partial_size,
             current_stop_price, trade_stage, current_price, portfolio,
             stop_loss_order, check_due, break_even_stop >>
history == << outcomes, chk, max_reported >>
ladder == << filled1, filled2, stop1, stop2 >>
manager == << active_trades, on_execution, ticker_valid >>
sizing == << target_allocation, partial2_size >>

\* target_allocation of adjust_targets_for_regime, the first two shares as
\* fractions n / d: [1/3, 1/3, 1/3], [0.25, 0.35, 0.4], [0.4, 0.4, 0.2]
EqualThirds == [n1 |-> 1, d1 |-> 3, n2 |-> 1, d2 |-> 3]
Allocations ==
    {EqualThirds,
     [n1 |-> 1, d1 |-> 4, n2 |-> 7, d2 |-> 20],
     [n1 |-> 2, d1 |-> 5, n2 |-> 2, d2 |-> 5]}

\* ---------------------------------------------------------------- helpers
Abs(x) == IF x < 0 THEN -x ELSE x
Max(a, b) == IF a >= b THEN a ELSE b
Min(a, b) == IF a <= b THEN a ELSE b

\* math.ceil(share_size / 3)
PartialSize(n) == (n + 2) \div 3

\* "BUY" if direction == "long" else "SELL"
InitialAction(d) == IF d = "long" THEN "BUY" ELSE "SELL"
\* "SELL" if direction == "long" else "BUY"
ClosingAction(d) == IF d = "long" THEN "SELL" ELSE "BUY"

\* entry_price -/+ risk_amount
InitialStop(e, r, d) == IF d = "long" THEN e - r ELSE e + r
\* entry_price +/- 1.5 * risk_amount   (r is even)
Partial1Target(e, r, d) == IF d = "long" THEN e + (3 * r) \div 2 ELSE e - (3 * r) \div 2
\* entry_price +/- 3 * risk_amount
Partial2Target(e, r, d) == IF d = "long" THEN e + 3 * r ELSE e - 3 * r
\* mutant: the two sides of the third target are swapped
Partial3TargetSwapped(e, r, d) == IF d = "long" THEN e - 5 * r ELSE e + 5 * r
\* entry_price +/- 5 * risk_amount
Partial3Target(e, r, d) == IF d = "long" THEN e + 5 * r ELSE e - 5 * r
\* new_stop_price = entry_price
BreakEvenStop(e, r, d) == e
\* new_stop_price = entry_price +/- risk_amount
ProfitLockStop(e, r, d) == IF d = "long" THEN e + r ELSE e - r

\* the prices the ticker may show for a trade in direction d
Prices(e, d) == {IF d = "long" THEN e + m ELSE e - m : m \in PriceMoves}

\* current_price >= target if long else current_price <= target
Reached(p, target, d) == IF d = "long" THEN p >= target ELSE p <= target

\* mutant: the farther target is tested first and without first_partial
StageHitFarthestFirst(fp, sp, p, e, r, d) ==
    IF ~sp /\ Reached(p, Partial2Target(e, r, d), d) THEN 2
    ELSE IF ~fp /\ Reached(p, Partial1Target(e, r, d), d) THEN 1
    ELSE IF sp /\ Reached(p, Partial3Target(e, r, d), d) THEN 3
    ELSE 0
\* the branch of the if / elif / elif chain that runs (0: none)
StageHit(fp, sp, p, e, r, d) ==
    IF ~fp /\ Reached(p, Partial1Target(e, r, d), d) THEN 1
    ELSE IF fp /\ ~sp /\ Reached(p, Partial2Target(e, r, d), d) THEN 2
    ELSE IF sp /\ Reached(p, Partial3Target(e, r, d), d) THEN 3
    ELSE 0

\* (current_price <= current_stop_price and long) or (>= and short)
StopCrossed(p, stop, d) ==
    (p <= stop /\ d = "long") \/ (p >= stop /\ d = "short")

\* mutant: the size is taken without regard to the side
ActualPositionSizeAbs(d, pos) == Abs(pos)
\* max(0, int(item.position)) if long else abs(min(0, int(item.position)))
ActualPositionSize(d, pos) ==
    IF d = "long" THEN Max(0, pos) ELSE Abs(Min(0, pos))

\* abs(item.position) if direction == "short" else item.position
ActualSize(d, pos) == IF d = "short" THEN Abs(pos) ELSE pos

\* mutant: a flat position counts as open
PositionOpenOrFlat(d, ex, pos) ==
    ex /\ ((d = "long" /\ pos >= 0) \/ (d = "short" /\ pos <= 0))
\* the re-queried portfolio has an item with position > 0 (long) or < 0 (short)
PositionOpen(d, ex, pos) ==
    ex /\ ((d = "long" /\ pos > 0) \/ (d = "short" /\ pos < 0))

\* mutant: the emergency order is sized from the cached counter
EmergencyQtyCached(rem, pos) == rem
\* remaining_shares = abs(item.position); MarketOrder(close_action, remaining_shares)
EmergencyQty(rem, pos) == Abs(pos)

\* mutant: the broker value is not taken over
ReconciledKeep(rem, actual) == rem
\* if actual_position_size != remaining_shares: remaining_shares = actual_position_size
Reconciled(rem, actual) == IF actual # rem THEN actual ELSE rem

\* ---------------------------------------------------------------- broker
\* signed effect of an executed order on the position
Delta(action, qty) == IF action = "BUY" THEN qty ELSE -qty

\* ib.placeOrder(stock, MarketOrder(action, qty))
MarketOrder(kind, action, qty) ==
    [kind |-> kind, action |-> action, qty |-> qty, status |-> "Pending"]

\* ib.placeOrder(stock, StopOrder(action, qty, price)): the broker refuses a
\* quantity that is not positive
StopOrder(action, qty, price) ==
    [action |-> action, qty |-> qty, price |-> price,
     status |-> IF qty > 0 THEN "Submitted" ELSE "Rejected"]

\* mutant: the old stop is left working
CancelOrderForgotten(ss, i) == ss
\* ib.cancelOrder(stop_loss_order): no effect on an order that is not working
CancelOrder(ss, i) ==
    [ss EXCEPT ![i].status = IF @ = "Submitted" THEN "Cancelled" ELSE @]

LastOrder(seq) == seq[Len(seq)]
ActiveStops == {i \in 1..Len(stops) : stops[i].status = "Submitted"}
OrdersOfKind(k) == {i \in 1..Len(mkt_orders) : mkt_orders[i].kind = k}

\* ---------------------------------------------------------------- Init
Init ==
    /\ direction \in Directions
    /\ share_size \in 1..MaxShares
    /\ risk_amount \in RiskAmounts
    /\ entry_price = EntryPrice
    /\ pc = "enter"
    /\ remaining_shares = 0
    /\ first_partial = FALSE
    /\ second_partial = FALSE
    /\ partial_size = 0
    /\ current_stop_price = 0
    /\ trade_stage = "None"
    /\ current_price = 0
    /\ portfolio = [exists |-> FALSE, position |-> 0]
    /\ stop_loss_order = 0
    /\ check_due = FALSE
    /\ break_even_stop = 0
    /\ position = 0
    /\ position_exists = FALSE
    /\ mkt_orders = << >>
    /\ stops = << >>
    /\ manual_count = 0
    /\ outcomes = {}
    /\ chk = "none"
    /\ max_reported = 0
    /\ filled1 = FALSE
    /\ filled2 = FALSE
    /\ stop1 = 0
    /\ stop2 = 0
    /\ active_trades = FALSE
    /\ on_execution = FALSE
    /\ partial2_size = 0
    /\ ticker_valid = TRUE
    /\ target_allocation = EqualThirds

\* ---------------------------------------------------------------- enter_trade
\* what trade.orderStatus.status may show after the 2 s wait
EntryStatuses == {"Filled", "Pending"}

\* mutant: any status is taken for a fill
EntryFilledAny(status) == TRUE
\* the negation of: if trade.orderStatus.status != "Filled": return None, ...
EntryFilled(status) == status = "Filled"

\* enter_trade: the entry market order, the 2 s wait, the status test, the
\* initial stop; __main__: "if trade and entry_price and stop_loss_order"
EnterTrade ==
    /\ pc = "enter"
    /\ \E status \in EntryStatuses :
        /\ mkt_orders' = Append(mkt_orders,
                [MarketOrder("entry", InitialAction(direction), share_size)
                    EXCEPT !.status = status])
        /\ position' = IF status = "Filled"
                       THEN position + Delta(InitialAction(direction), share_size)
                       ELSE position
        /\ position_exists' = (position_exists \/ status = "Filled")
        /\ IF EntryFilled(status)
           THEN /\ stops' = Append(stops, StopOrder(ClosingAction(direction), share_size,
                                       InitialStop(entry_price, risk_amount, direction)))
                /\ stop_loss_order' = Len(stops) + 1
                /\ pc' = "main"
                /\ outcomes' = outcomes
           ELSE /\ pc' = "done"
                /\ outcomes' = outcomes \cup {"EntryNotFilled"}
                /\ UNCHANGED << stops, stop_loss_order >>
    /\ UNCHANGED << inputs, break_even_stop, remaining_shares, first_partial, second_partial,
                    partial_size, current_stop_price, trade_stage, current_price,
                    portfolio, check_due, manual_count, chk, max_reported >>
    /\ UNCHANGED << ladder, manager, sizing >>

\* __main__ calls manage_trade; manage_trade sets up its locals
ManageStart ==
    /\ pc = "main"
    /\ remaining_shares' = share_size
    /\ first_partial' = FALSE
    /\ second_partial' = FALSE
    /\ partial_size' = PartialSize(share_size)
    /\ current_stop_price' = InitialStop(entry_price, risk_amount, direction)
    /\ trade_stage' = "Initial"
    /\ check_due' = FALSE
    /\ pc' = "top"
    /\ UNCHANGED << inputs, break_even_stop, current_price, portfolio, stop_loss_order,
                    position, position_exists, mkt_orders, stops, manual_count,
                    history >>
    /\ UNCHANGED << ladder, manager, sizing >>

\* ---------------------------------------------------------------- manage_trade
\* where the iteration goes after the stage chain: the stop-loss check, then
\* "if remaining_shares <= 0: break", then ib.sleep(1) and the next iteration
NextPc(p, stop, d, rem) ==
    IF StopCrossed(p, stop, d) THEN "stopverify"
    ELSE IF rem <= 0 THEN "done"
    ELSE "top"

\* mutant: the sign of a short position is kept
VerifiedSigned(rem, snap, d) ==
    IF snap.exists /\ snap.position # rem THEN snap.position ELSE rem
\* the post-stage verification: it reads the portfolio list fetched at the top
\* of the iteration, before the partial order was placed
Verified(rem, snap, d) ==
    IF snap.exists /\ ActualSize(d, snap.position) # rem
    THEN ActualSize(d, snap.position)
    ELSE rem

\* what the checkpoints of the run have shown so far: "none": no mismatch yet;
\* "corrected": a checkpoint found a mismatch; "rechecked": a later checkpoint ran
Checked(c, mismatch) ==
    IF c = "none" THEN (IF mismatch THEN "corrected" ELSE "none")
    ELSE "rechecked"

\* mutant: a checkpoint also cancels the working stop
LoopTopCancelling ==
    /\ pc = "top"
    /\ LET actual == ActualPositionSize(direction, position) IN
       IF remaining_shares <= 0
       THEN /\ pc' = "done"
            /\ UNCHANGED << remaining_shares, check_due, portfolio, history, stops >>
       ELSE /\ portfolio' = [exists |-> position_exists, position |-> position]
            /\ IF ~position_exists
               THEN /\ pc' = "done"
                    /\ outcomes' = outcomes \cup {"PositionNotFound"}
                    /\ UNCHANGED << remaining_shares, check_due, chk, max_reported, stops >>
               ELSE IF actual = 0
               THEN /\ pc' = "done"
                    /\ outcomes' = outcomes \cup {"PositionZero"}
                    /\ UNCHANGED << remaining_shares, check_due, chk, max_reported, stops >>
               ELSE /\ pc' = "price"
                    /\ max_reported' = Max(max_reported, actual)
                    /\ outcomes' = outcomes
                    /\ IF check_due
                       THEN /\ remaining_shares' = Reconciled(remaining_shares, actual)
                            /\ check_due' = FALSE
                            /\ chk' = Checked(chk, actual # remaining_shares)
                            /\ stops' = CancelOrder(stops, stop_loss_order)
                       ELSE UNCHANGED << remaining_shares, check_due, chk, stops >>
    /\ UNCHANGED << inputs, break_even_stop, first_partial, second_partial, partial_size,
                    current_stop_price, trade_stage, current_price,
                    stop_loss_order, position, position_exists, mkt_orders,
                    manual_count >>
    /\ UNCHANGED << ladder, manager, sizing >>
\* top of the loop: while test, portfolio snapshot, zero / absent position,
\* reconciliation checkpoint
LoopTop ==
    /\ pc = "top"
    /\ LET actual == ActualPositionSize(direction, position) IN
       IF remaining_shares <= 0
       THEN /\ pc' = "done"
            /\ UNCHANGED << remaining_shares, check_due, portfolio, history >>
       ELSE /\ portfolio' = [exists |-> position_exists, position |-> position]
            /\ IF ~position_exists
               THEN /\ pc' = "done"
                    /\ outcomes' = outcomes \cup {"PositionNotFound"}
                    /\ UNCHANGED << remaining_shares, check_due, chk, max_reported >>
               ELSE IF actual = 0
               THEN /\ pc' = "done"
                    /\ outcomes' = outcomes \cup {"PositionZero"}
                    /\ UNCHANGED << remaining_shares, check_due, chk, max_reported >>
               ELSE /\ pc' = "price"
                    /\ max_reported' = Max(max_reported, actual)
                    /\ outcomes' = outcomes
                    /\ IF check_due
                       THEN /\ remaining_shares' = Reconciled(remaining_shares, actual)
                            /\ check_due' = FALSE
                            /\ chk' = Checked(chk, actual # remaining_shares)
                       ELSE UNCHANGED << remaining_shares, check_due, chk >>
    /\ UNCHANGED << inputs, break_even_stop, first_partial, second_partial, partial_size,
                    current_stop_price, trade_stage, current_price,
                    stop_loss_order, position, position_exists, mkt_orders,
                    stops, manual_count >>
    /\ UNCHANGED << ladder, manager, sizing >>

\* the polled price, the if / elif / elif chain of exits and, when no 2 s wait
\* follows, the stop-loss test and the end of the iteration
PollAndStage ==
    /\ pc = "price"
    /\ \E p \in Prices(entry_price, direction), late \in BOOLEAN :
        LET s == StageHit(first_partial, second_partial, p,
                          entry_price, risk_amount, direction)
            act == ClosingAction(direction)
            be == BreakEvenStop(entry_price, risk_amount, direction)
            pl == ProfitLockStop(entry_price, risk_amount, direction)
        IN
        /\ current_price' = p
        /\ IF s = 1
           THEN /\ mkt_orders' = Append(mkt_orders,
                                    MarketOrder("partial1", act, partial_size))
                /\ stops' = Append(CancelOrder(stops, stop_loss_order),
                                   StopOrder(act, remaining_shares - partial_size, be))
                /\ remaining_shares' = remaining_shares - partial_size
                /\ first_partial' = TRUE
                /\ stop_loss_order' = Len(stops) + 1
                /\ current_stop_price' = be
                /\ trade_stage' = "Partial1"
                /\ pc' = "verify"
                /\ UNCHANGED << second_partial, check_due, outcomes >>
           ELSE IF s = 2
           THEN /\ mkt_orders' = Append(mkt_orders,
                                    MarketOrder("partial2", act, partial_size))
                /\ stops' = Append(CancelOrder(stops, stop_loss_order),
                                   StopOrder(act, remaining_shares - partial_size, pl))
                /\ remaining_shares' = remaining_shares - partial_size
                /\ second_partial' = TRUE
                /\ stop_loss_order' = Len(stops) + 1
                /\ current_stop_price' = pl
                /\ trade_stage' = "Partial2"
                /\ pc' = "verify"
                /\ UNCHANGED << first_partial, check_due, outcomes >>
           ELSE IF s = 3
           THEN /\ mkt_orders' = Append(mkt_orders,
                                    MarketOrder("final", act, remaining_shares))
                /\ stops' = CancelOrder(stops, stop_loss_order)
                /\ remaining_shares' = 0
                /\ trade_stage' = "Complete"
                /\ outcomes' = outcomes \cup {"Complete"}
                /\ pc' = NextPc(p, current_stop_price, direction, 0)
                /\ UNCHANGED << first_partial, second_partial, stop_loss_order,
                                current_stop_price, check_due >>
           ELSE /\ pc' = NextPc(p, current_stop_price, direction, remaining_shares)
                /\ check_due' = (check_due \/ (late /\ pc' = "top"))
                /\ UNCHANGED << mkt_orders, stops, remaining_shares, first_partial,
                                second_partial, stop_loss_order, current_stop_price,
                                trade_stage, outcomes >>
    /\ UNCHANGED << inputs, break_even_stop, partial_size, portfolio, position, position_exists,
                    manual_count, chk, max_reported >>
    /\ UNCHANGED << ladder, manager, sizing >>

\* after the 2 s wait of a partial: the position verification, then the
\* stop-loss test and the end of the iteration
VerifyPartial ==
    /\ pc = "verify"
    /\ \E late \in BOOLEAN :
        LET rem == Verified(remaining_shares, portfolio, direction) IN
        /\ remaining_shares' = rem
        /\ pc' = NextPc(current_price, current_stop_price, direction, rem)
        /\ check_due' = (check_due \/ (late /\ pc' = "top"))
    /\ UNCHANGED << inputs, break_even_stop, first_partial, second_partial, partial_size,
                    current_stop_price, trade_stage, current_price, portfolio,
                    stop_loss_order, position, position_exists, mkt_orders,
                    stops, manual_count, history >>
    /\ UNCHANGED << ladder, manager, sizing >>

\* after the 1 s wait of the stop-loss branch: the portfolio is queried again;
\* closed: done; still open: emergency market order
StopVerify ==
    /\ pc = "stopverify"
    /\ portfolio' = [exists |-> position_exists, position |-> position]
    /\ IF PositionOpen(direction, position_exists, position)
       THEN /\ mkt_orders' = Append(mkt_orders,
                    MarketOrder("emergency", ClosingAction(direction),
                                EmergencyQty(remaining_shares, position)))
            /\ outcomes' = outcomes \cup {"StopLossForcedClose"}
       ELSE /\ mkt_orders' = mkt_orders
            /\ outcomes' = outcomes \cup {"StopLossConfirmed"}
    /\ remaining_shares' = 0
    /\ pc' = "done"
    /\ UNCHANGED << inputs, break_even_stop, first_partial, second_partial, partial_size,
                    current_stop_price, trade_stage, current_price,
                    stop_loss_order, check_due, position, position_exists,
                    stops, manual_count, chk, max_reported >>
    /\ UNCHANGED << ladder, manager, sizing >>

\* the broker calls of a stage transition, in the order the code makes them
FailurePoints == {"partial", "cancel", "stop"}
StageKind(s) == IF s = 1 THEN "partial1" ELSE IF s = 2 THEN "partial2" ELSE "final"

\* a broker call of a stage transition raises: the calls made before it have
\* taken effect, the locals are not updated, and the exception leaves
\* manage_trade and is logged by "except Exception" of __main__
StageFails ==
    /\ pc = "price"
    /\ \E p \in Prices(entry_price, direction), at \in FailurePoints :
        LET s == StageHit(first_partial, second_partial, p,
                          entry_price, risk_amount, direction)
            qty == IF s = 3 THEN remaining_shares ELSE partial_size
        IN
        /\ s \in {1, 2, 3}
        /\ s = 3 => at # "stop"
        /\ current_price' = p
        /\ mkt_orders' = IF at = "partial" THEN mkt_orders
                         ELSE Append(mkt_orders, MarketOrder(StageKind(s),
                                         ClosingAction(direction), qty))
        /\ stops' = IF at = "stop" THEN CancelOrder(stops, stop_loss_order)
                    ELSE stops
    /\ pc' = "done"
    /\ outcomes' = outcomes \cup {"Error"}
    /\ UNCHANGED << inputs, break_even_stop, remaining_shares, first_partial, second_partial,
                    partial_size, current_stop_price, trade_stage, portfolio,
                    stop_loss_order, check_due, position, position_exists,
                    manual_count, chk, max_reported >>
    /\ UNCHANGED << ladder, manager, sizing >>

\* ---------------------------------------------------------------- broker steps
Managing == pc \in {"top", "price", "verify", "stopverify"}
\* the waits and loops of the other scripts
OtherRunning == pc \in {"b_loop", "r_loop", "a_wait", "a_loop", "s_loop",
                        "s_stopverify", "t_wait", "l_wait", "l_loop", "p_wait"}
\* the script is at a point where it yields to the event loop
Running == Managing \/ OtherRunning

\* the oldest pending market order executes
FillMarket ==
    /\ Running
    /\ \E i \in 1..Len(mkt_orders) :
        /\ mkt_orders[i].status = "Pending"
        /\ \A j \in 1..(i - 1) : mkt_orders[j].status # "Pending"
        /\ mkt_orders' = [mkt_orders EXCEPT ![i].status = "Filled"]
        /\ position' = position + Delta(mkt_orders[i].action, mkt_orders[i].qty)
    /\ position_exists' = TRUE
    /\ UNCHANGED << inputs, pc, locals, stops, manual_count, history >>
    /\ UNCHANGED << ladder, manager, sizing >>

\* a working stop order is triggered and executes
StopTrigger ==
    /\ Running
    /\ \E i \in ActiveStops :
        /\ stops' = [stops EXCEPT ![i].status = "Filled"]
        /\ position' = position + Delta(stops[i].action, stops[i].qty)
    /\ position_exists' = TRUE
    /\ UNCHANGED << inputs, pc, locals, mkt_orders, manual_count, history >>
    /\ UNCHANGED << ladder, manager, sizing >>

\* sizes, in the trade direction, that somebody else may leave the position
\* at: one share on the other side, flat, one share, one more than entered
ManualSizes(n) == {-1, 0, 1, n + 1}

\* somebody else trades the instrument: the position becomes another size,
\* possibly larger, smaller, flat or on the other side
ManualModify ==
    /\ Running
    /\ manual_count < MaxManual
    /\ \E size \in ManualSizes(share_size) :
        /\ position' = Delta(InitialAction(direction), size)
        /\ position' # position
    /\ position_exists' = TRUE
    /\ manual_count' = manual_count + 1
    /\ UNCHANGED << inputs, pc, locals, mkt_orders, stops, history >>
    /\ UNCHANGED << ladder, manager, sizing >>

\* the portfolio stops listing the flat instrument
PortfolioDrop ==
    /\ Running
    /\ position_exists
    /\ position = 0
    /\ position_exists' = FALSE
    /\ UNCHANGED << inputs, pc, locals, position, mkt_orders, stops,
                    manual_count, history >>
    /\ UNCHANGED << ladder, manager, sizing >>

\* the market data feed delivers a first usable price (ticker.last or
\* ticker.close becomes a positive number)
TickerDelivers ==
    /\ Running
    /\ ~ticker_valid
    /\ ticker_valid' = TRUE
    /\ UNCHANGED << inputs, pc, locals, position, position_exists, mkt_orders,
                    stops, manual_count, history, ladder, sizing,
                    active_trades, on_execution >>

\* ---------------------------------------------------------------- the other managers
\* The other scripts keep the same locals under the same names.  Their steps
\* are told apart by pc: b_ order_entry_partials.py, r_ trading_bot.py,
\* a_ asynchronus_trading.py, s_ analysis_functions.py (TradingSystem),
\* t_ order_entry_partials_improved_test.py, l_ order_entry_partials_risk.py,
\* p_ order_entry_partials_limit.py.  An iteration that does not
\* query the broker again after a wait is one step; the polled price and the
\* portfolio list are locals of that step and are not kept between steps.

\* entry_price +/- R
Target1R(e, r, d) == IF d = "long" THEN e + r ELSE e - r
\* entry_price +/- 2 * R
Target2R(e, r, d) == IF d = "long" THEN e + 2 * r ELSE e - 2 * r

\* Order(action=action, orderType="TRAIL", totalQuantity=quantity,
\* auxPrice=trail_amount): the price field holds the trailing amount
CreateTrailingStopOrder(action, qty, trail) == StopOrder(action, qty, trail)

\* the locals and order books that a stage transition reads and writes
Loc ==
    [rem |-> remaining_shares, fp |-> first_partial, sp |-> second_partial,
     mo |-> mkt_orders, ss |-> stops, slo |-> stop_loss_order,
     be |-> break_even_stop]
SetLoc(st) ==
    /\ remaining_shares' = st.rem
    /\ first_partial' = st.fp
    /\ second_partial' = st.sp
    /\ mkt_orders' = st.mo
    /\ stops' = st.ss
    /\ stop_loss_order' = st.slo
    /\ break_even_stop' = st.be

\* ib.cancelOrder(order) of an order reference that may be None or unplaced
CancelIfPlaced(ss, i) == IF i \in 1..Len(ss) THEN CancelOrder(ss, i) ELSE ss

\* ---- order_entry_partials.py
\* enter_trade: the entry order, the 2 s wait, avgFillPrice taken whatever the
\* status (0.0 for an order that has not executed), the initial stop;
\* manage_trade: its locals
BasicEnter ==
    /\ pc = "b_enter"
    /\ \E status \in EntryStatuses :
        /\ mkt_orders' = Append(mkt_orders,
                [MarketOrder("entry", InitialAction(direction), share_size)
                    EXCEPT !.status = status])
        /\ position' = IF status = "Filled"
                       THEN position + Delta(InitialAction(direction), share_size)
                       ELSE position
        /\ position_exists' = (position_exists \/ status = "Filled")
        /\ entry_price' = IF status = "Filled" THEN entry_price ELSE 0
    /\ stops' = Append(stops, StopOrder(ClosingAction(direction), share_size,
                           InitialStop(entry_price', risk_amount, direction)))
    /\ stop_loss_order' = Len(stops) + 1
    /\ remaining_shares' = share_size
    /\ first_partial' = FALSE
    /\ partial_size' = PartialSize(share_size)
    /\ pc' = "b_loop"
    /\ UNCHANGED << direction, share_size, risk_amount, second_partial,
                    current_stop_price, trade_stage, current_price, portfolio,
                    check_due, break_even_stop, manual_count, history >>
    /\ UNCHANGED << ladder, manager, sizing >>

\* "if not first_partial and price beyond partial1_target": the first partial
BasicFirst(st, p) ==
    IF ~st.fp /\ Reached(p, Target1R(entry_price, risk_amount, direction), direction)
    THEN [st EXCEPT
            !.mo = Append(@, MarketOrder("partial1", ClosingAction(direction),
                                         partial_size)),
            !.ss = Append(CancelIfPlaced(@, st.slo),
                          StopOrder(ClosingAction(direction),
                                    share_size - partial_size, entry_price)),
            !.be = Len(st.ss) + 1,
            !.rem = @ - partial_size,
            !.fp = TRUE]
    ELSE st

\* "if remaining_shares == share_size - partial_size and price beyond
\* partial2_target": the second partial; trail_amount = 0.5 is the value of R
BasicSecond(st, p) ==
    IF /\ st.rem = share_size - partial_size
       /\ Reached(p, Target2R(entry_price, risk_amount, direction), direction)
    THEN [st EXCEPT
            !.mo = Append(@, MarketOrder("partial2", ClosingAction(direction),
                                         partial_size)),
            !.ss = Append(CancelIfPlaced(@, st.be),
                          CreateTrailingStopOrder(ClosingAction(direction),
                                    st.rem - partial_size, risk_amount)),
            !.rem = @ - partial_size]
    ELSE st

\* one iteration of manage_trade: the while test, the zero-position return,
\* the polled price, the two ifs, the stop-loss break
BasicIterate ==
    /\ pc = "b_loop"
    /\ IF remaining_shares <= 0
       THEN /\ pc' = "done"
            /\ SetLoc(Loc)
            /\ UNCHANGED outcomes
       ELSE IF position_exists /\ position = 0
       THEN /\ pc' = "done"
            /\ outcomes' = outcomes \cup {"PositionZero"}
            /\ SetLoc(Loc)
       ELSE \E p \in Prices(EntryPrice, direction) :
            LET crossed == StopCrossed(p, InitialStop(entry_price, risk_amount,
                                                      direction), direction)
            IN
            /\ SetLoc(BasicSecond(BasicFirst(Loc, p), p))
            /\ pc' = IF crossed THEN "done" ELSE "b_loop"
            /\ outcomes' = IF crossed THEN outcomes \cup {"StopLossTriggered"}
                           ELSE outcomes
    /\ UNCHANGED << inputs, partial_size, current_stop_price, trade_stage,
                    current_price, portfolio, check_due, position,
                    position_exists, manual_count, chk, max_reported >>
    /\ UNCHANGED << ladder, manager, sizing >>

\* ---- web_app/backend/trading_bot.py
\* the calls of a stage transition of manage_3r_trade that may raise, in the
\* order the code makes them ("none": no call raises); the exception is
\* caught by the handler of the iteration and the loop goes on
FailurePoints3R == {"none", "partial", "cancel", "send", "stop", "after"}

\* enter_3r_trade: the entry order, the wait of at most 12 s, the trade goes on
\* whatever the status, the initial stop; manage_3r_trade: its locals
Enter3R ==
    /\ pc = "r_enter"
    /\ \E status \in EntryStatuses :
        /\ mkt_orders' = Append(mkt_orders,
                [MarketOrder("entry", InitialAction(direction), share_size)
                    EXCEPT !.status = status])
        /\ position' = IF status = "Filled"
                       THEN position + Delta(InitialAction(direction), share_size)
                       ELSE position
        /\ position_exists' = (position_exists \/ status = "Filled")
    /\ stops' = Append(stops, StopOrder(ClosingAction(direction), share_size,
                           InitialStop(entry_price, risk_amount, direction)))
    /\ stop_loss_order' = Len(stops) + 1
    /\ break_even_stop' = 0
    /\ remaining_shares' = share_size
    /\ first_partial' = FALSE
    /\ second_partial' = FALSE
    /\ partial_size' = PartialSize(share_size)
    /\ pc' = "r_loop"
    /\ UNCHANGED << inputs, current_stop_price, trade_stage, current_price,
                    portfolio, check_due, manual_count, history >>
    /\ UNCHANGED << ladder, manager, sizing >>

\* "if not first_partial and price beyond partial1_target"
First3RDue(fp, p) ==
    ~fp /\ Reached(p, Target1R(entry_price, risk_amount, direction), direction)
\* the first partial, up to the call that raises
First3R(st, p, at) ==
    IF First3RDue(st.fp, p)
    THEN [st EXCEPT
            !.mo = IF at = "partial" THEN @
                   ELSE Append(@, MarketOrder("partial1", ClosingAction(direction),
                                              partial_size)),
            !.ss = IF at \in {"partial", "cancel"} THEN @
                   ELSE IF at \in {"send", "stop"} THEN CancelIfPlaced(@, st.slo)
                   ELSE Append(CancelIfPlaced(@, st.slo),
                               StopOrder(ClosingAction(direction),
                                         share_size - partial_size, entry_price)),
            !.be = IF at \in {"partial", "cancel", "send"} THEN @
                   ELSE IF at = "stop" THEN 0
                   ELSE Len(st.ss) + 1,
            !.rem = IF at = "none" THEN @ - partial_size ELSE @,
            !.fp = (at = "none")]
    ELSE st

\* "if first_partial and not second_partial and price beyond partial2_target"
Second3RDue(fp, sp, p) ==
    fp /\ ~sp /\ Reached(p, Target2R(entry_price, risk_amount, direction), direction)
\* the second partial, up to the call that raises; trail_amount = R / 2
Second3R(st, p, at) ==
    IF Second3RDue(st.fp, st.sp, p)
    THEN [st EXCEPT
            !.mo = IF at = "partial" THEN @
                   ELSE Append(@, MarketOrder("partial2", ClosingAction(direction),
                                              partial_size)),
            !.ss = IF at \in {"partial", "cancel"} THEN @
                   ELSE IF at \in {"send", "stop"} THEN CancelIfPlaced(@, st.be)
                   ELSE Append(CancelIfPlaced(@, st.be),
                               CreateTrailingStopOrder(ClosingAction(direction),
                                         st.rem - partial_size, risk_amount \div 2)),
            !.rem = IF at = "none" THEN @ - partial_size ELSE @,
            !.sp = (at = "none")]
    ELSE st

\* (long and position_size <= 0) or (short and position_size >= 0)
Closed3R(d, pos) == (d = "long" /\ pos <= 0) \/ (d = "short" /\ pos >= 0)

\* one iteration of manage_3r_trade: the while test with its time limit, the
\* closed-position return, the polled price, the two ifs inside the try
Iterate3R ==
    /\ pc = "r_loop"
    /\ \E timed_out \in BOOLEAN :
       IF remaining_shares <= 0 \/ timed_out
       THEN /\ pc' = "done"
            /\ outcomes' = outcomes \cup {"MonitoringComplete"}
            /\ SetLoc(Loc)
       ELSE IF position_exists /\ Closed3R(direction, position)
       THEN /\ pc' = "done"
            /\ outcomes' = outcomes \cup {"Closed"}
            /\ SetLoc(Loc)
       ELSE \E p \in Prices(EntryPrice, direction) :
            \E at1 \in IF First3RDue(first_partial, p) /\ Len(mkt_orders) < MaxOrders
                        THEN FailurePoints3R ELSE {"none"} :
            LET st1 == First3R(Loc, p, at1) IN
            \E at2 \in IF /\ at1 = "none"
                           /\ Second3RDue(st1.fp, st1.sp, p)
                           /\ Len(mkt_orders) < MaxOrders
                        THEN FailurePoints3R ELSE {"none"} :
            /\ SetLoc(IF at1 # "none" THEN st1 ELSE Second3R(st1, p, at2))
            /\ pc' = "r_loop"
            /\ outcomes' = outcomes
    /\ UNCHANGED << inputs, partial_size, current_stop_price, trade_stage,
                    current_price, portfolio, check_due, position,
                    position_exists, manual_count, chk, max_reported >>
    /\ UNCHANGED << ladder, manager, sizing >>

\* ---- asynchronus_trading.py
\* TradeManager.enter_trade: the entry order is placed and on_execution is
\* registered with execDetailsEvent
AsyncEnter ==
    /\ pc = "a_enter"
    /\ mkt_orders' = Append(mkt_orders,
            MarketOrder("entry", InitialAction(direction), share_size))
    /\ on_execution' = TRUE
    /\ pc' = "a_wait"
    /\ UNCHANGED << inputs, locals, position, position_exists, stops,
                    manual_count, history >>
    /\ UNCHANGED << ladder, sizing, active_trades, ticker_valid >>

\* wait_for(fill_future, timeout=30) returns: the initial stop, the entry of
\* active_trades
AsyncFilled ==
    /\ pc = "a_wait"
    /\ LastOrder(mkt_orders).status = "Filled"
    /\ stops' = Append(stops, StopOrder(ClosingAction(direction), share_size,
                           InitialStop(entry_price, risk_amount, direction)))
    /\ stop_loss_order' = Len(stops) + 1
    /\ remaining_shares' = share_size
    /\ first_partial' = FALSE
    /\ second_partial' = FALSE
    /\ partial_size' = PartialSize(share_size)
    /\ active_trades' = TRUE
    /\ pc' = "a_loop"
    /\ UNCHANGED << inputs, current_stop_price, trade_stage, current_price,
                    portfolio, check_due, break_even_stop, position,
                    position_exists, mkt_orders, manual_count, history >>
    /\ UNCHANGED << ladder, sizing, on_execution, ticker_valid >>

\* mutant: the entry order is left working
CancelEntryForgotten(mo) == mo
\* self.ib.cancelOrder(trade.order)
CancelEntry(mo) == [mo EXCEPT ![Len(mo)].status = "Cancelled"]

\* wait_for raises TimeoutError: the entry order is cancelled, None is
\* returned; finally: on_execution is removed from execDetailsEvent
AsyncTimeout ==
    /\ pc = "a_wait"
    /\ LastOrder(mkt_orders).status # "Filled"
    /\ mkt_orders' = CancelEntry(mkt_orders)
    /\ on_execution' = FALSE
    /\ pc' = "done"
    /\ outcomes' = outcomes \cup {"EntryNotFilled"}
    /\ UNCHANGED << inputs, locals, position, position_exists, stops,
                    manual_count, chk, max_reported >>
    /\ UNCHANGED << ladder, sizing, active_trades, ticker_valid >>

\* mutant: the flag of the first partial is not looked at
AsyncFirstDueAgain(fp, rem, p) ==
    rem > 0 /\ Reached(p, Target1R(entry_price, risk_amount, direction), direction)
\* not first_partial_taken and remaining_shares > 0 and price beyond partial1_target
AsyncFirstDue(fp, rem, p) ==
    ~fp /\ rem > 0
        /\ Reached(p, Target1R(entry_price, risk_amount, direction), direction)

\* take_first_partial; rem is the remaining_shares read at line 112
AsyncFirst(st, rem, p) ==
    IF AsyncFirstDue(st.fp, rem, p)
    THEN [st EXCEPT
            !.mo = Append(@, MarketOrder("partial1", ClosingAction(direction),
                                         partial_size)),
            !.ss = Append(CancelIfPlaced(@, st.slo),
                          StopOrder(ClosingAction(direction),
                                    st.rem - partial_size, entry_price)),
            !.slo = Len(st.ss) + 1,
            !.rem = @ - partial_size,
            !.fp = TRUE]
    ELSE st

\* first_partial_taken and not second_partial_taken and remaining_shares >
\* partial_size and price beyond partial2_target
AsyncSecondDue(fp, sp, rem, p) ==
    fp /\ ~sp /\ rem > partial_size
       /\ Reached(p, Target2R(entry_price, risk_amount, direction), direction)

\* take_second_partial; rem is the remaining_shares read at line 112, before
\* the first partial of the same iteration; trail_amount = 2 * R
AsyncSecond(st, rem, p) ==
    IF AsyncSecondDue(st.fp, st.sp, rem, p)
    THEN [st EXCEPT
            !.mo = Append(@, MarketOrder("partial2", ClosingAction(direction),
                                         partial_size)),
            !.ss = Append(CancelIfPlaced(@, st.slo),
                          CreateTrailingStopOrder(ClosingAction(direction),
                                    st.rem - partial_size, 2 * risk_amount)),
            !.slo = Len(st.ss) + 1,
            !.rem = @ - partial_size,
            !.sp = TRUE]
    ELSE st

\* one iteration of setup_price_monitoring.  Without a valid price: sleep and
\* continue.  Otherwise: the two ifs and the portfolio test that ends the
\* monitoring (the symbol leaves active_trades; back in enter_trade the
\* finally clause removes on_execution).
AsyncIterate ==
    /\ pc = "a_loop"
    /\ active_trades
    /\ IF ~ticker_valid
       THEN UNCHANGED << locals, mkt_orders, stops, pc, outcomes,
                         active_trades, on_execution >>
       ELSE \E p \in Prices(EntryPrice, direction) :
              LET found == position_exists /\ Abs(position) > 0 IN
              /\ SetLoc(AsyncSecond(AsyncFirst(Loc, remaining_shares, p),
                                    remaining_shares, p))
              /\ pc' = IF found THEN "a_loop" ELSE "done"
              /\ outcomes' = IF found THEN outcomes
                                      ELSE outcomes \cup {"PositionClosed"}
              /\ active_trades' = found
              /\ on_execution' = found
              /\ UNCHANGED << partial_size, current_stop_price, trade_stage,
                              current_price, portfolio, check_due >>
    /\ UNCHANGED << inputs, position, position_exists, manual_count, chk,
                    max_reported, ladder, sizing, ticker_valid >>

\* ---- claude_strategy/analysis_functions.py, claude_improved_strategy.py
\* math.ceil(share_size * target_allocation[0]) and [1]; with the equal
\* thirds these are the math.ceil(share_size / 3) of manage_trade's defaults.
\* The float products ceil like the exact ones for every share_size up to 2000.
Partial1Size(shares, a) == (shares * a.n1 + a.d1 - 1) \div a.d1
Partial2Size(shares, a) == (shares * a.n2 + a.d2 - 1) \div a.d2

\* TradingSystem.enter_trade (the entry order, the wait of at most 5 s, the
\* status test, the initial stop) and the locals of TradingSystem.manage_trade
SystemEnter ==
    /\ pc = "s_enter"
    /\ \E status \in EntryStatuses :
        /\ mkt_orders' = Append(mkt_orders,
                [MarketOrder("entry", InitialAction(direction), share_size)
                    EXCEPT !.status = status])
        /\ position' = IF status = "Filled"
                       THEN position + Delta(InitialAction(direction), share_size)
                       ELSE position
        /\ position_exists' = (position_exists \/ status = "Filled")
        /\ IF status = "Filled"
           THEN /\ stops' = Append(stops, StopOrder(ClosingAction(direction), share_size,
                                       InitialStop(entry_price, risk_amount, direction)))
                /\ stop_loss_order' = Len(stops) + 1
                /\ remaining_shares' = share_size
                /\ partial_size' = Partial1Size(share_size, target_allocation)
                /\ partial2_size' = Partial2Size(share_size, target_allocation)
                /\ current_stop_price' = InitialStop(entry_price, risk_amount, direction)
                /\ trade_stage' = "Initial"
                /\ pc' = "s_loop"
                /\ outcomes' = outcomes
           ELSE /\ pc' = "done"
                /\ outcomes' = outcomes \cup {"EntryNotFilled"}
                /\ UNCHANGED << stops, stop_loss_order, remaining_shares,
                                partial_size, partial2_size, current_stop_price,
                                trade_stage >>
    /\ UNCHANGED << inputs, first_partial, second_partial, current_price,
                    portfolio, check_due, break_even_stop, manual_count, chk,
                    max_reported >>
    /\ UNCHANGED << ladder, manager, target_allocation >>

\* target_pct > 0.8 for the next target: the price is more than 80 % of the
\* way between two targets away from the next one (time_without_progress only
\* grows on such a price; with equal targets the division raises)
NoProgress(sp, p, e, r, d) ==
    /\ r > 0
    /\ IF sp
       THEN 5 * Abs(Partial3Target(e, r, d) - p) >
                4 * Abs(Partial3Target(e, r, d) - Partial2Target(e, r, d))
       ELSE 5 * Abs(Partial2Target(e, r, d) - p) >
                4 * Abs(Partial2Target(e, r, d) - Partial1Target(e, r, d))

\* current_price * 0.995 if long else current_price * 1.005, in whole ticks
TighterStop(p, d) == IF d = "long" THEN (p * 995) \div 1000 ELSE (p * 1005) \div 1000

\* one iteration of TradingSystem.manage_trade up to the stop-loss test: the
\* while test, the portfolio snapshot, the reconciliation, the polled price,
\* the time-based tightening of the stop, the if / elif / elif chain with its
\* verification against the snapshot
SystemIterate ==
    /\ pc = "s_loop"
    /\ LET actual == ActualPositionSize(direction, position)
           act == ClosingAction(direction)
       IN
       IF remaining_shares <= 0
       THEN /\ pc' = "done"
            /\ SetLoc(Loc)
            /\ UNCHANGED << check_due, current_stop_price, trade_stage,
                            outcomes >>
       ELSE IF ~position_exists \/ actual = 0
       THEN /\ pc' = "done"
            /\ outcomes' = outcomes \cup
                    {IF position_exists THEN "PositionZero" ELSE "PositionNotFound"}
            /\ SetLoc(Loc)
            /\ UNCHANGED << check_due, current_stop_price, trade_stage >>
       ELSE \E p \in Prices(entry_price, direction), late, stalled \in BOOLEAN :
            LET snap == [exists |-> TRUE, position |-> position]
                rem0 == IF check_due THEN Reconciled(remaining_shares, actual)
                        ELSE remaining_shares
                tighten == /\ stalled
                           /\ first_partial
                           /\ NoProgress(second_partial, p, entry_price,
                                         risk_amount, direction)
                           /\ Len(stops) < MaxStops
                ss0 == IF tighten
                       THEN Append(CancelIfPlaced(stops, stop_loss_order),
                                   StopOrder(act, rem0, TighterStop(p, direction)))
                       ELSE stops
                slo0 == IF tighten THEN Len(stops) + 1 ELSE stop_loss_order
                csp0 == IF tighten THEN TighterStop(p, direction)
                        ELSE current_stop_price
                s == StageHit(first_partial, second_partial, p,
                              entry_price, risk_amount, direction)
                newstop == IF s = 1
                           THEN BreakEvenStop(entry_price, risk_amount, direction)
                           ELSE ProfitLockStop(entry_price, risk_amount, direction)
                size == IF s = 2 THEN partial2_size ELSE partial_size
                rem1 == IF s \in {1, 2} THEN Verified(rem0 - size, snap, direction)
                        ELSE IF s = 3 THEN 0
                        ELSE rem0
                csp1 == IF s \in {1, 2} THEN newstop ELSE csp0
            IN
            /\ remaining_shares' = rem1
            /\ first_partial' = (first_partial \/ s = 1)
            /\ second_partial' = (second_partial \/ s = 2)
            /\ mkt_orders' = IF s = 0 THEN mkt_orders
                             ELSE Append(mkt_orders, MarketOrder(StageKind(s), act,
                                    IF s = 3 THEN rem0 ELSE size))
            /\ stops' = IF s \in {1, 2}
                        THEN Append(CancelIfPlaced(ss0, slo0),
                                    StopOrder(act, rem0 - size, newstop))
                        ELSE IF s = 3 THEN CancelIfPlaced(ss0, slo0)
                        ELSE ss0
            /\ stop_loss_order' = IF s \in {1, 2} THEN Len(ss0) + 1 ELSE slo0
            /\ current_stop_price' = csp1
            /\ trade_stage' = IF s = 1 THEN "Partial1"
                              ELSE IF s = 2 THEN "Partial2"
                              ELSE IF s = 3 THEN "Complete"
                              ELSE trade_stage
            /\ outcomes' = IF s = 3 THEN outcomes \cup {"Complete"} ELSE outcomes
            /\ pc' = IF StopCrossed(p, csp1, direction) THEN "s_stopverify"
                     ELSE IF rem1 <= 0 THEN "done"
                     ELSE "s_loop"
            /\ check_due' = IF pc' = "s_loop" THEN late ELSE FALSE
            /\ break_even_stop' = break_even_stop
    /\ UNCHANGED << inputs, partial_size, current_price, portfolio, position,
                    position_exists, manual_count, chk, max_reported >>
    /\ UNCHANGED << ladder, manager, sizing >>

\* after the 1 s wait of the stop-loss branch of TradingSystem.manage_trade:
\* the portfolio is queried again; closed: done; still open: emergency order
SystemStopVerify ==
    /\ pc = "s_stopverify"
    /\ IF PositionOpen(direction, position_exists, position)
       THEN /\ mkt_orders' = Append(mkt_orders,
                    MarketOrder("emergency", ClosingAction(direction),
                                EmergencyQty(remaining_shares, position)))
            /\ outcomes' = outcomes \cup {"StopLossForcedClose"}
       ELSE /\ mkt_orders' = mkt_orders
            /\ outcomes' = outcomes \cup {"StopLossConfirmed"}
    /\ remaining_shares' = 0
    /\ pc' = "done"
    /\ UNCHANGED << inputs, break_even_stop, first_partial, second_partial,
                    partial_size, current_stop_price, trade_stage, current_price,
                    portfolio, stop_loss_order, check_due, position,
                    position_exists, stops, manual_count, chk, max_reported >>
    /\ UNCHANGED << ladder, manager, sizing >>

\* ---- order_entry_partials_improved_test.py
\* enter_trade: the entry order is placed
TestEnter ==
    /\ pc = "t_enter"
    /\ mkt_orders' = Append(mkt_orders,
            MarketOrder("entry", InitialAction(direction), share_size))
    /\ pc' = "t_wait"
    /\ UNCHANGED << inputs, locals, position, position_exists, stops,
                    manual_count, history >>
    /\ UNCHANGED << ladder, manager, sizing >>

\* "while not trade.orderStatus.avgFillPrice: ib.sleep(0.5)" is left once the
\* order has executed; then the stop at 1.5 ATR and the return
TestFilled ==
    /\ pc = "t_wait"
    /\ LastOrder(mkt_orders).status = "Filled"
    /\ stops' = Append(stops, StopOrder(ClosingAction(direction), share_size,
                           IF direction = "long"
                           THEN entry_price - (3 * risk_amount) \div 2
                           ELSE entry_price + (3 * risk_amount) \div 2))
    /\ stop_loss_order' = Len(stops) + 1
    /\ pc' = "t_main"
    /\ UNCHANGED << inputs, remaining_shares, first_partial, second_partial,
                    partial_size, current_stop_price, trade_stage, current_price,
                    portfolio, check_due, break_even_stop, position,
                    position_exists, mkt_orders, manual_count, history >>
    /\ UNCHANGED << ladder, manager, sizing >>

\* ---- order_entry_partials_risk.py, order_entry_partials_limit.py
\* The three target orders are limit orders; they are kept in mkt_orders under
\* the kinds t1, t2, t3 and execute in that order, as the price has to pass
\* one target to reach the next.  stop_dist is risk_amount.

\* math.floor(shares * 0.3), math.floor(shares * 0.4): the float products floor
\* like the exact ones for every shares from 1 to 100000
P1(shares) == (3 * shares) \div 10
P2(shares) == (4 * shares) \div 10
\* mutant: the last target is sized like the first
P3Floored(shares) == (3 * shares) \div 10
\* p3 = shares - p1 - p2
P3(shares) == shares - P1(shares) - P2(shares)

\* ib.placeOrder(stock, LimitOrder(action, qty, price)): the broker refuses a
\* quantity that is not positive
LimitOrder(kind, action, qty) ==
    [kind |-> kind, action |-> action, qty |-> qty,
     status |-> IF qty > 0 THEN "Pending" ELSE "Rejected"]

\* the target order of kind k, and its trade.orderStatus.filled
TargetOrder(mo, k) == mo[CHOOSE i \in 1..Len(mo) : mo[i].kind = k]
FilledOf(o) == IF o.status = "Filled" THEN o.qty ELSE 0

\* ib.cancelOrder(t_order) of the target order of kind k
CancelTarget(mo, k) ==
    [i \in 1..Len(mo) |->
        IF mo[i].kind = k /\ mo[i].status = "Pending"
        THEN [mo[i] EXCEPT !.status = "Cancelled"] ELSE mo[i]]

\* the three target orders of both scripts
TargetOrders(shares) ==
    << LimitOrder("t1", ClosingAction(direction), P1(shares)),
       LimitOrder("t2", ClosingAction(direction), P2(shares)),
       LimitOrder("t3", ClosingAction(direction), P3(shares)) >>

\* place_entry_and_stop: the entry market order
LadderEnter ==
    /\ pc = "l_enter"
    /\ mkt_orders' = Append(mkt_orders,
            MarketOrder("entry", InitialAction(direction), share_size))
    /\ pc' = "l_wait"
    /\ UNCHANGED << inputs, locals, position, position_exists, stops,
                    manual_count, history, ladder, manager, sizing >>

\* place_entry_and_stop after the 2 s wait (fill_price is avgFillPrice or the
\* quoted price; no status test), then the head of manage_partials: the three
\* limit orders and the flags
LadderPlace ==
    /\ pc = "l_wait"
    /\ stops' = Append(stops, StopOrder(ClosingAction(direction), share_size,
                           InitialStop(entry_price, risk_amount, direction)))
    /\ stop1' = Len(stops) + 1
    /\ stop2' = 0
    /\ mkt_orders' = mkt_orders \o TargetOrders(share_size)
    /\ filled1' = FALSE
    /\ filled2' = FALSE
    /\ pc' = "l_loop"
    /\ UNCHANGED << inputs, locals, position, position_exists, manual_count,
                    history, manager, sizing >>

\* if not filled1 and t1_trade.orderStatus.filled >= p1
Filled1Due(f1, mo) == ~f1 /\ FilledOf(TargetOrder(mo, "t1")) >= P1(share_size)
\* if filled1 and not filled2 and t2_trade.orderStatus.filled >= p2
Filled2Due(f1, f2, mo) ==
    f1 /\ ~f2 /\ FilledOf(TargetOrder(mo, "t2")) >= P2(share_size)
\* if filled2 and not filled3 and t3_trade.orderStatus.filled >= p3
Filled3Due(f2, mo) == f2 /\ FilledOf(TargetOrder(mo, "t3")) >= P3(share_size)

\* the locals and the stop book that the status checks read and write
Lad == [f1 |-> filled1, f2 |-> filled2, s1 |-> stop1, s2 |-> stop2, ss |-> stops]

\* the stop is moved to break-even
LadderFirst(st) ==
    IF Filled1Due(st.f1, mkt_orders)
    THEN [st EXCEPT
            !.f1 = TRUE,
            !.ss = Append(CancelIfPlaced(@, st.s1),
                          StopOrder(ClosingAction(direction),
                                    share_size - P1(share_size), entry_price)),
            !.s1 = Len(st.ss) + 1]
    ELSE st

\* the stop is moved to 1R
LadderSecond(st) ==
    IF Filled2Due(st.f1, st.f2, mkt_orders)
    THEN [st EXCEPT
            !.f2 = TRUE,
            !.ss = Append(CancelIfPlaced(@, st.s1),
                          StopOrder(ClosingAction(direction),
                                    share_size - P1(share_size) - P2(share_size),
                                    Target1R(entry_price, risk_amount, direction))),
            !.s2 = Len(st.ss) + 1]
    ELSE st

\* one iteration of the loop of manage_partials: the position, the three
\* status checks, the test for a flat position
LadderIterate ==
    /\ pc = "l_loop"
    /\ LET st == LadderSecond(LadderFirst(Lad))
           third == Filled3Due(st.f2, mkt_orders)
           flat == position = 0
           c1 == IF st.f1 THEN mkt_orders ELSE CancelTarget(mkt_orders, "t1")
           c2 == IF st.f2 THEN c1 ELSE CancelTarget(c1, "t2")
       IN  /\ filled1' = st.f1
           /\ filled2' = st.f2
           /\ stop1' = st.s1
           /\ stop2' = st.s2
           /\ stops' = IF third THEN CancelIfPlaced(st.ss, st.s2) ELSE st.ss
           /\ mkt_orders' = IF ~third /\ flat THEN CancelTarget(c2, "t3")
                                                ELSE mkt_orders
           /\ pc' = IF third \/ flat THEN "done" ELSE "l_loop"
           /\ outcomes' = IF third THEN outcomes \cup {"TargetsFilled"}
                          ELSE IF flat THEN outcomes \cup {"PositionFlat"}
                          ELSE outcomes
    /\ UNCHANGED << inputs, locals, position, position_exists, manual_count,
                    chk, max_reported, manager, sizing >>

\* place_entry_stop_and_targets: the entry market order
LimitEnter ==
    /\ pc = "p_enter"
    /\ mkt_orders' = Append(mkt_orders,
            MarketOrder("entry", InitialAction(direction), share_size))
    /\ pc' = "p_wait"
    /\ UNCHANGED << inputs, locals, position, position_exists, stops,
                    manual_count, history, ladder, manager, sizing >>

\* place_entry_stop_and_targets after the 2 s wait: the stop and the three
\* limit orders; the function returns
LimitPlace ==
    /\ pc = "p_wait"
    /\ stops' = Append(stops, StopOrder(ClosingAction(direction), share_size,
                           InitialStop(entry_price, risk_amount, direction)))
    /\ mkt_orders' = mkt_orders \o TargetOrders(share_size)
    /\ pc' = "done"
    /\ outcomes' = outcomes \cup {"TargetsPlaced"}
    /\ UNCHANGED << inputs, locals, position, position_exists, manual_count,
                    chk, max_reported, ladder, manager, sizing >>

\* ---------------------------------------------------------------- properties
\* size of the broker's position in the trade direction
DirSize(pos) == IF direction = "long" THEN Max(0, pos) ELSE Max(0, -pos)
\* the broker shows an open position in the trade direction
BrokerShowsOpen == position_exists /\ DirSize(position) > 0
StageRank(st) ==
    CASE st = "Partial1" -> 1
      [] st = "Partial2" -> 2
      [] st = "Complete" -> 3
      [] OTHER -> 0
StageOrders == OrdersOfKind("partial1") \cup OrdersOfKind("partial2")
                   \cup OrdersOfKind("final")
RECURSIVE SumQty(_)
SumQty(S) ==
    IF S = {} THEN 0
    ELSE LET i == CHOOSE x \in S : TRUE IN mkt_orders[i].qty + SumQty(S \ {i})

\* C1: every step of manage_trade fires at most one exit stage: the stage moves
\* forward by at most one (Initial, Partial1, Partial2, Complete), never
\* backward, and at most one stage exit order is placed, however far the
\* polled price has gone.
C1_OneStagePerIteration ==
    [][ /\ StageRank(trade_stage') >= StageRank(trade_stage)
        /\ StageRank(trade_stage') <= StageRank(trade_stage) + 1
        /\ Cardinality(StageOrders') <= Cardinality(StageOrders) + 1 ]_vars
\* the first partial has just fired on a price already at or beyond the second target
C1_Witness ==
    /\ pc = "verify"
    /\ trade_stage = "Partial1"
    /\ risk_amount > 0
    /\ Reached(current_price, Partial2Target(entry_price, risk_amount, direction),
               direction)

\* C2: when the stop-loss branch re-queries the portfolio and the broker still
\* shows an open position in the trade direction, the script places exactly
\* one emergency market order, on the closing side, for the broker's position
\* size, sets remaining_shares to 0 and ends.
C2_EmergencyClose ==
    [][ (pc = "stopverify" /\ BrokerShowsOpen) =>
          \/ pc' = "stopverify"
          \/ /\ pc' = "done"
             /\ remaining_shares' = 0
             /\ Len(mkt_orders') = Len(mkt_orders) + 1
             /\ Cardinality(OrdersOfKind("emergency")') = 1
             /\ LastOrder(mkt_orders').kind = "emergency"
             /\ LastOrder(mkt_orders').action = ClosingAction(direction)
             /\ LastOrder(mkt_orders').qty = DirSize(position) ]_vars
\* a forced close for a position size that differs from the entered size
C2_Witness ==
    /\ pc = "done"
    /\ "StopLossForcedClose" \in outcomes
    /\ \E i \in OrdersOfKind("emergency") :
          /\ mkt_orders[i].qty = DirSize(portfolio.position)
          /\ mkt_orders[i].qty # share_size

\* C3: when the stop-loss branch re-queries the portfolio and the broker shows
\* no open position in the trade direction, the script places no order, sets
\* remaining_shares to 0 and ends.
C3_StopConfirmedNoOrder ==
    [][ (pc = "stopverify" /\ ~BrokerShowsOpen) =>
          \/ pc' = "stopverify"
          \/ /\ pc' = "done"
             /\ remaining_shares' = 0
             /\ Len(mkt_orders') = Len(mkt_orders)
             /\ Len(stops') = Len(stops) ]_vars
\* the initial stop executed before any stage, and the stop-out was confirmed
C3_Witness ==
    /\ pc = "done"
    /\ outcomes = {"StopLossConfirmed"}
    /\ trade_stage = "Initial"
    /\ Len(mkt_orders) = 1
    /\ stops[1].status = "Filled"

C5_StopCoversRemaining ==
    (pc = "top" /\ stop_loss_order \in ActiveStops) =>
        stops[stop_loss_order].qty = remaining_shares

\* C6: when price has reached all three targets and nobody else has touched
\* the position, the quantities of the stage exit orders sum to share_size
\* (stated for the runs most favourable to it: a positive risk amount, and
\* both partials reported as executed before the final order was placed).
C6_ExitsSumToShareSize ==
    ( /\ pc = "done"
      /\ outcomes = {"Complete"}
      /\ risk_amount > 0
      /\ manual_count = 0
      /\ \A i \in 1..Len(stops) : stops[i].status # "Filled"
      /\ DirSize(portfolio.position) = share_size - 2 * partial_size )
    => SumQty(StageOrders) = share_size

\* C7: with risk_amount > 0 a run has exactly one terminal outcome: never two,
\* one when it has ended, and the final-target exit is never followed by an
\* emergency close or any other order.
C7_OneTerminalOutcome ==
    risk_amount > 0 =>
        /\ Cardinality(outcomes) <= 1
        /\ pc = "done" => Cardinality(outcomes) = 1
        /\ "Complete" \in outcomes =>
              /\ pc = "done"
              /\ LastOrder(mkt_orders).kind = "final"
              /\ OrdersOfKind("emergency") = {}
\* the final target was hit exactly and the stop-loss test of that iteration ran
C7_Witness ==
    /\ pc = "done"
    /\ risk_amount > 0
    /\ outcomes = {"Complete"}
    /\ current_price = Partial3Target(entry_price, risk_amount, direction)

\* C8: a reconciliation checkpoint leaves remaining_shares equal to the size
\* the broker reports, whatever it was before, and restarts the 10 s timer.
C8_ReconcileAdoptsBroker ==
    [][ (pc = "top" /\ pc' = "price" /\ check_due) =>
          /\ remaining_shares' = DirSize(position)
          /\ ~check_due' ]_vars
\* a checkpoint found a mismatch and a later checkpoint has run
C8_Witness ==
    /\ pc = "price"
    /\ chk = "rechecked"
    /\ remaining_shares = DirSize(portfolio.position)
    /\ remaining_shares # share_size

\* C9: an iteration that starts with no portfolio entry, or with a size of
\* zero in the trade direction, ends the run without placing any order and
\* without reaching the price poll, the targets or the stop test.
C9_VanishedPositionReturns ==
    [][ (pc = "top" /\ remaining_shares > 0 /\ ~BrokerShowsOpen) =>
          /\ pc' \in {"top", "done"}
          /\ Len(mkt_orders') = Len(mkt_orders)
          /\ Len(stops') = Len(stops)
          /\ remaining_shares' = remaining_shares ]_vars
\* the run ended in the middle of the ladder on a flat or reversed position
C9_Witness ==
    /\ pc = "done"
    /\ outcomes \in {{"PositionZero"}, {"PositionNotFound"}}
    /\ trade_stage = "Partial1"
    /\ remaining_shares > 0

\* C10 (as claimed): 0 <= remaining_shares <= share_size throughout
\* manage_trade, and it ends only with remaining_shares = 0 or a vanished position.
C10_RemainingWithinShareSize ==
    pc \in {"top", "price", "verify", "stopverify", "done"} =>
        /\ 0 <= remaining_shares
        /\ remaining_shares <= share_size
\* C10 (amended): at every loop-iteration boundary remaining_shares is at
\* least 1 and at most the larger of share_size and the largest size the
\* broker has reported; manage_trade ends only with remaining_shares = 0 or a
\* vanished position.
C10_RemainingBounded ==
    /\ pc = "top" =>
          /\ remaining_shares >= 1
          /\ remaining_shares <= Max(share_size, max_reported)
    /\ (pc = "done" /\ outcomes # {"EntryNotFilled"}) =>
          \/ remaining_shares = 0
          \/ outcomes \in {{"PositionZero"}, {"PositionNotFound"}}
\* a checkpoint has taken over a position larger than the one entered
C10_Witness ==
    /\ pc = "top"
    /\ remaining_shares > share_size
    /\ remaining_shares = max_reported

\* no stop order has executed and nobody else has traded: the position has
\* changed only through the market orders of the script
OwnOrdersOnly ==
    /\ manual_count = 0
    /\ \A i \in 1..Len(stops) : stops[i].status # "Filled"

\* C11: while the broker position changes only through the manager's own exit
\* orders, no step of manage_trade after its set-up raises remaining_shares
\* (stated for a positive risk amount).
C11_RemainingNeverIncreases ==
    [][ (Managing /\ risk_amount > 0 /\ OwnOrdersOnly /\ OwnOrdersOnly') =>
            remaining_shares' <= remaining_shares ]_vars

\* C12: manage_trade ends after the final-target exit or after an emergency
\* close only when the broker's position is zero.
C12_DoneOnlyWhenFlat ==
    (pc = "done" /\ outcomes \cap {"Complete", "StopLossForcedClose"} # {}) =>
        position = 0

\* C13: when the entry order is not Filled after the wait, no stop order is
\* placed, manage_trade never starts (its locals keep their initial values, no
\* exit order is placed) and the run is over.
C13_UnfilledEntryNotManaged ==
    (Len(mkt_orders) >= 1 /\ mkt_orders[1].status # "Filled") =>
        /\ pc = "done"
        /\ outcomes = {"EntryNotFilled"}
        /\ stops = << >>
        /\ Len(mkt_orders) = 1
        /\ trade_stage = "None"
        /\ remaining_shares = 0
\* the entry order was placed and was not filled after the wait
C13_Witness ==
    /\ pc = "done"
    /\ Len(mkt_orders) = 1
    /\ mkt_orders[1].kind = "entry"
    /\ mkt_orders[1].status = "Pending"
    /\ position = 0

\* C14: in the loops of order_entry_partials.py, manage_3r_trade and
\* TradeManager, one iteration places at most one partial-exit order, however
\* far the polled price has gone (stated for runs whose entry order was filled).
C14_OnePartialPerIteration ==
    [][ (Len(mkt_orders) >= 1 /\ mkt_orders[1].status = "Filled") =>
            Cardinality(StageOrders') <= Cardinality(StageOrders) + 1 ]_vars

\* the exit orders of stage k
StageExits(k) == OrdersOfKind(StageKind(k))

\* C15: in manage_trade of order_entry_partials_improved.py, in
\* TradingSystem.manage_trade and in TradeManager, no stage's exit order is
\* placed twice, a stage-2 exit is placed only after a stage-1 exit, and the
\* final exit only after a stage-2 exit.
C15_StagesInOrder ==
    /\ \A k \in 1..3 : Cardinality(StageExits(k)) <= 1
    /\ \A k \in 2..3 : \A i \in StageExits(k) : \E j \in StageExits(k - 1) : j < i
\* TradingSystem.manage_trade has placed the first and the second exit and
\* waits for the final target
C15_Witness ==
    /\ pc = "s_loop"
    /\ risk_amount > 0
    /\ second_partial
    /\ StageExits(1) = {2}
    /\ StageExits(2) = {3}

\* C16: when manage_3r_trade leaves its loop on the time limit with
\* remaining_shares > 0 and the position open, it places a closing market
\* order for the remaining shares.
C16_TimeoutFlattens ==
    [][ ( /\ pc = "r_loop"
          /\ pc' = "done"
          /\ "MonitoringComplete" \in outcomes'
          /\ remaining_shares > 0
          /\ DirSize(position) > 0 )
        => /\ Len(mkt_orders') = Len(mkt_orders) + 1
           /\ LastOrder(mkt_orders').action = ClosingAction(direction)
           /\ LastOrder(mkt_orders').qty = remaining_shares ]_vars

\* C17: a stage transition in which a broker call raises does not take the
\* stop cover away from an open position: if a stop order was working before
\* it, one is working after.
C17_FailedStageKeepsStop ==
    [][ ( /\ "Error" \notin outcomes
          /\ "Error" \in outcomes'
          /\ ActiveStops # {}
          /\ DirSize(position') > 0 ) => ActiveStops' # {} ]_vars

\* C20: a long trade of 99 shares entered at 100.00 with risk 1.00 (200 and 2
\* in ticks of 0.50) that reaches the three targets with nobody else trading
\* and both partials reported as executed: 33 shares are sold at each target,
\* the stop is moved to 100.00 for 66 shares, then to 101.00 for 33 shares,
\* and is cancelled at the end.
C20_Scenario99 ==
    ( /\ pc = "done"
      /\ outcomes = {"Complete"}
      /\ OwnOrdersOnly
      /\ DirSize(portfolio.position) = share_size - 2 * partial_size )
    => /\ Len(mkt_orders) = 4
       /\ \A i \in 2..4 : mkt_orders[i].action = "SELL" /\ mkt_orders[i].qty = 33
       /\ Len(stops) = 3
       /\ stops[2].qty = 66 /\ stops[2].price = 200
       /\ stops[3].qty = 33 /\ stops[3].price = 202
       /\ ActiveStops = {}

\* C18: manage_3r_trade places each stage's partial-exit order at most once
\* in a run, also when a later call of the stage transition raises and the
\* handler of the iteration swallows the exception.
C18_PartialPlacedOnce ==
    pc = "r_loop" =>
        /\ Cardinality(StageExits(1)) <= 1
        /\ Cardinality(StageExits(2)) <= 1

\* the script is inside an entry routine
InEntry == pc \in {"enter", "t_enter", "t_wait", "a_enter", "a_wait"}

\* C19: every entry routine returns, whether or not the broker ever reports
\* the entry order as filled.
C19_EntryReturns == <>(~InEntry)

\* C21: a trade whose risk unit is <= 0 is rejected before anything is sent to
\* the broker: with risk_amount <= 0 no entry order, no stop order and no
\* exit order is ever placed.
C21_NonPositiveRiskRejected ==
    risk_amount <= 0 => (mkt_orders = << >> /\ stops = << >>)

\* the three limit orders of a ladder have been placed
TargetsPlaced == OrdersOfKind("t1") # {}
TargetQty(k) == TargetOrder(mkt_orders, k).qty

\* C22: in the limit-order ladders, for every shares >= 1 the three target
\* quantities are floor(0.3 * shares), floor(0.4 * shares) and the rest: all
\* are >= 0 and they sum exactly to shares.
C22_LadderQuantities ==
    TargetsPlaced =>
        /\ 10 * TargetQty("t1") <= 3 * share_size
        /\ 10 * (TargetQty("t1") + 1) > 3 * share_size
        /\ 10 * TargetQty("t2") <= 4 * share_size
        /\ 10 * (TargetQty("t2") + 1) > 4 * share_size
        /\ TargetQty("t1") >= 0 /\ TargetQty("t2") >= 0 /\ TargetQty("t3") >= 0
        /\ TargetQty("t1") + TargetQty("t2") + TargetQty("t3") = share_size

\* the ladder is placed and the last target takes up what the two floors lost
C22_Witness ==
    /\ TargetsPlaced
    /\ 10 * (TargetQty("t1") + TargetQty("t2")) < 7 * share_size
    /\ 10 * TargetQty("t3") > 3 * share_size
    /\ TargetQty("t1") + TargetQty("t2") + TargetQty("t3") = share_size

\* C28: in manage_partials, filled1 (filled2) is set and the stop is replaced
\* only on an iteration that finds shares of the first (second) target order
\* executed (stated for iterations that find the position open).
C28_StopMovesAfterFill ==
    [][ (pc = "l_loop" /\ position # 0) =>
          /\ (filled1' /\ ~filled1) => FilledOf(TargetOrder(mkt_orders, "t1")) > 0
          /\ (filled2' /\ ~filled2) => FilledOf(TargetOrder(mkt_orders, "t2")) > 0
          /\ Len(stops') > Len(stops) =>
                \/ FilledOf(TargetOrder(mkt_orders, "t1")) > 0 /\ ~filled1
                \/ FilledOf(TargetOrder(mkt_orders, "t2")) > 0 /\ ~filled2 ]_vars

\* C23: in TradeManager.enter_trade, when no fill of the entry order is
\* reported within the timeout, the entry order is cancelled, no stop order
\* is placed, the symbol is not in active_trades, no price monitoring is
\* started (the routine is over), the execution callback is unregistered and
\* the outcome is the unfilled entry.
C23_TimeoutLeavesNothing ==
    [][ (pc = "a_wait" /\ pc' # "a_wait"
            /\ LastOrder(mkt_orders).status # "Filled") =>
          /\ pc' = "done"
          /\ LastOrder(mkt_orders').status = "Cancelled"
          /\ stops' = << >>
          /\ ~active_trades'
          /\ ~on_execution'
          /\ "EntryNotFilled" \in outcomes' ]_vars

\* the wait has timed out and the entry order is cancelled
C23_Witness ==
    /\ pc = "done"
    /\ "EntryNotFilled" \in outcomes
    /\ Len(mkt_orders) = 1
    /\ mkt_orders[1].kind = "entry"
    /\ mkt_orders[1].status = "Cancelled"

\* the broker's portfolio shows no open position for the symbol
NoOpenPosition == ~(position_exists /\ Abs(position) > 0)

\* C29: in setup_price_monitoring, the monitoring does not go on forever with
\* the portfolio showing no open position: the symbol is removed from
\* active_trades and the loop exits, whether or not the ticker ever delivers
\* a valid price.
C29_ClosedPositionEndsMonitoring ==
    []<>(~(pc = "a_loop" /\ active_trades /\ NoOpenPosition))

\* C30: a reconciliation checkpoint of manage_trade changes only
\* remaining_shares and the checkpoint timer: it places and cancels no order
\* and leaves first_partial, second_partial, partial_size, trade_stage,
\* current_stop_price and the stop order, with its quantity, as they were.
C30_CheckpointFrame ==
    [][ (pc = "top" /\ pc' = "price" /\ check_due) =>
          /\ mkt_orders' = mkt_orders
          /\ stops' = stops
          /\ stop_loss_order' = stop_loss_order
          /\ first_partial' = first_partial
          /\ second_partial' = second_partial
          /\ partial_size' = partial_size
          /\ trade_stage' = trade_stage
          /\ current_stop_price' = current_stop_price ]_vars

\* a checkpoint has just corrected remaining_shares after the first partial,
\* with the break-even stop still working for its old quantity
C30_Witness ==
    /\ pc = "price"
    /\ ~check_due
    /\ chk = "corrected"
    /\ first_partial
    /\ remaining_shares = DirSize(position)
    /\ stop_loss_order \in ActiveStops
    /\ stops[stop_loss_order].qty # remaining_shares

\* C24: every exit market order that manage_trade places (the two partials,
\* the final-target order, the emergency close) has a quantity no larger
\* than the position the broker shows at that moment, in runs with a positive
\* risk unit in which nobody else trades the instrument.
C24_ExitWithinPosition ==
    [][ (Managing /\ risk_amount > 0 /\ OwnOrdersOnly) =>
          \A i \in (Len(mkt_orders) + 1)..Len(mkt_orders') :
              mkt_orders'[i].qty <= DirSize(position) ]_vars

\* C25: whenever manage_trade has returned (final target, confirmed stop-out,
\* emergency close, position found zero or absent), no stop order of the
\* trade is still working at the broker; stated for runs with a positive
\* risk unit in which nobody else trades the instrument.
C25_NoStopLeftWorking ==
    (pc = "done" /\ risk_amount > 0 /\ manual_count = 0) => ActiveStops = {}

\* C26: with the allocations of the regimes, for every share_size >= 1 the
\* sizes of the three stages of TradingSystem.manage_trade are all >= 0:
\* stages 1 and 2 together never sell more shares than were bought.
C26_StageSizesFit ==
    pc = "s_loop" =>
        /\ partial_size >= 0
        /\ partial2_size >= 0
        /\ share_size - partial_size - partial2_size >= 0

\* the stop that lines 532-543 have installed is on the side of the price
\* of the stop it replaces, or at it
NotLooser(new, old, d) == IF d = "long" THEN new >= old ELSE new <= old

\* C27: the time-based stop adjustment of TradingSystem.manage_trade only
\* tightens: the stop it installs is never on the adverse side of
\* current_stop_price (stated for iterations in which no target is hit, so
\* that the new stop is the one of the adjustment).
C27_TighteningOnlyTightens ==
    [][ (pc = "s_loop" /\ risk_amount > 0 /\ mkt_orders' = mkt_orders
            /\ Len(stops') > Len(stops)) =>
          NotLooser(LastOrder(stops').price, current_stop_price, direction) ]_vars

Next ==
    \/ EnterTrade
    \/ ManageStart
    \/ LoopTop
    \/ PollAndStage
    \/ VerifyPartial
    \/ StopVerify
    \/ FillMarket
    \/ StopTrigger
    \/ ManualModify
    \/ PortfolioDrop

Spec == Init /\ [][Next]_vars

\* the same runs, with broker calls that may raise during a stage transition
NextFail ==
    \/ Next
    \/ StageFails

SpecFail == Init /\ [][NextFail]_vars

\* one run of __main__ with direction "long", share_size 99, a fill price of
\* 100.00 and a risk amount of 1.00, in ticks of 0.50
Init99 ==
    /\ direction = "long"
    /\ share_size = 99
    /\ risk_amount = 2
    /\ entry_price = 200
    /\ pc = "enter"
    /\ remaining_shares = 0
    /\ first_partial = FALSE
    /\ second_partial = FALSE
    /\ partial_size = 0
    /\ current_stop_price = 0
    /\ trade_stage = "None"
    /\ current_price = 0
    /\ portfolio = [exists |-> FALSE, position |-> 0]
    /\ stop_loss_order = 0
    /\ check_due = FALSE
    /\ break_even_stop = 0
    /\ position = 0
    /\ position_exists = FALSE
    /\ mkt_orders = << >>
    /\ stops = << >>
    /\ manual_count = 0
    /\ outcomes = {}
    /\ chk = "none"
    /\ max_reported = 0
    /\ filled1 = FALSE
    /\ filled2 = FALSE
    /\ stop1 = 0
    /\ stop2 = 0
    /\ active_trades = FALSE
    /\ on_execution = FALSE
    /\ partial2_size = 0
    /\ ticker_valid = TRUE
    /\ target_allocation = EqualThirds

Spec99 == Init99 /\ [][Next]_vars

\* the state before a script in starts places its entry order
InitSized(starts, risks, sizes) ==
    /\ direction \in Directions
    /\ share_size \in sizes
    /\ risk_amount \in risks
    /\ entry_price = EntryPrice
    /\ pc \in starts
    /\ remaining_shares = 0
    /\ first_partial = FALSE
    /\ second_partial = FALSE
    /\ partial_size = 0
    /\ current_stop_price = 0
    /\ trade_stage = "None"
    /\ current_price = 0
    /\ portfolio = [exists |-> FALSE, position |-> 0]
    /\ stop_loss_order = 0
    /\ check_due = FALSE
    /\ break_even_stop = 0
    /\ position = 0
    /\ position_exists = FALSE
    /\ mkt_orders = << >>
    /\ stops = << >>
    /\ manual_count = 0
    /\ outcomes = {}
    /\ chk = "none"
    /\ max_reported = 0
    /\ filled1 = FALSE
    /\ filled2 = FALSE
    /\ stop1 = 0
    /\ stop2 = 0
    /\ active_trades = FALSE
    /\ on_execution = FALSE
    /\ partial2_size = 0

InitAt(starts, risks) ==
    /\ InitSized(starts, risks, 1..MaxShares)
    /\ ticker_valid = TRUE
    /\ target_allocation = EqualThirds

\* R is a positive constant of the script (0.5) or a volatility measure
PositiveRisks == {r \in RiskAmounts : r > 0}

\* the two-partial loops: order_entry_partials.py, manage_3r_trade, TradeManager
InitLoops == InitAt({"b_enter", "r_enter", "a_enter"}, PositiveRisks)

NextLoops ==
    \/ BasicEnter
    \/ BasicIterate
    \/ Enter3R
    \/ Iterate3R
    \/ AsyncEnter
    \/ AsyncFilled
    \/ AsyncTimeout
    \/ AsyncIterate
    \/ FillMarket
    \/ StopTrigger
    \/ ManualModify
    \/ PortfolioDrop

SpecLoops == InitLoops /\ [][NextLoops]_vars

\* the staged-exit managers: manage_trade of order_entry_partials_improved.py,
\* TradingSystem.manage_trade, TradeManager
InitStaged ==
    /\ InitAt({"enter", "s_enter", "a_enter"}, RiskAmounts)
    /\ pc = "a_enter" => risk_amount > 0

NextStaged ==
    \/ Next
    \/ SystemEnter
    \/ SystemIterate
    \/ SystemStopVerify
    \/ AsyncEnter
    \/ AsyncFilled
    \/ AsyncTimeout
    \/ AsyncIterate

SpecStaged == InitStaged /\ [][NextStaged]_vars

\* the entry routines: enter_trade of order_entry_partials_improved.py and of
\* order_entry_partials_improved_test.py, TradeManager.enter_trade.  The script
\* keeps running (weak fairness of its own steps); the broker owes nothing.
InitEntry ==
    /\ InitAt({"enter", "t_enter", "a_enter"}, RiskAmounts)
    /\ pc = "a_enter" => risk_amount > 0

NextEntry ==
    \/ EnterTrade
    \/ TestEnter
    \/ TestFilled
    \/ AsyncEnter
    \/ AsyncFilled
    \/ AsyncTimeout
    \/ FillMarket

SpecEntry ==
    /\ InitEntry
    /\ [][NextEntry]_vars
    /\ WF_vars(EnterTrade)
    /\ WF_vars(TestEnter)
    /\ WF_vars(TestFilled)
    /\ WF_vars(AsyncEnter)
    /\ WF_vars(AsyncFilled)
    /\ WF_vars(AsyncTimeout)

\* the limit-order ladders: run_strategy of order_entry_partials_risk.py and
\* place_entry_stop_and_targets; calc_shares returns any number of shares
\* from 1 on
LadderShares == 1..(MaxShares + 7)
InitLadder ==
    /\ InitSized({"l_enter", "p_enter"}, PositiveRisks, LadderShares)
    /\ ticker_valid = TRUE
    /\ target_allocation = EqualThirds

NextLadder ==
    \/ LadderEnter
    \/ LadderPlace
    \/ LadderIterate
    \/ LimitEnter
    \/ LimitPlace
    \/ FillMarket
    \/ StopTrigger

SpecLadder == InitLadder /\ [][NextLadder]_vars

\* TradeManager on its own, with a feed that may not have delivered a price
\* yet.  The coroutine is scheduled fairly; the broker and the feed owe
\* nothing.
InitMonitor ==
    /\ InitSized({"a_enter"}, PositiveRisks, 1..MaxShares)
    /\ ticker_valid \in BOOLEAN
    /\ target_allocation = EqualThirds

NextMonitor ==
    \/ AsyncEnter
    \/ AsyncFilled
    \/ AsyncTimeout
    \/ AsyncIterate
    \/ FillMarket
    \/ StopTrigger
    \/ PortfolioDrop
    \/ TickerDelivers

SpecMonitor ==
    /\ InitMonitor
    /\ [][NextMonitor]_vars
    /\ WF_vars(AsyncEnter)
    /\ WF_vars(AsyncFilled)
    /\ WF_vars(AsyncTimeout)
    /\ WF_vars(AsyncIterate)

\* claude_improved_strategy.py: TradingSystem with the allocation of any regime
InitRegime ==
    /\ InitSized({"s_enter"}, RiskAmounts, 1..MaxShares)
    /\ ticker_valid = TRUE
    /\ target_allocation \in Allocations

NextRegime ==
    \/ SystemEnter
    \/ SystemIterate
    \/ SystemStopVerify
    \/ FillMarket
    \/ StopTrigger
    \/ ManualModify
    \/ PortfolioDrop

SpecRegime == InitRegime /\ [][NextRegime]_vars
====
